---- MODULE Spec2Model ----
\* Model of src/services/geminiService.ts: the memoized provider client, the
\* history adapter, the file adapter and the two streaming generators
\* getChatResponseStream and getDeepDiveResponseStream.
EXTENDS Naturals, Sequences, FiniteSets

\* ---------------------------------------------------------------- bounds
NumCalls == 2       \* generator invocations that may be alive at once
MaxChunks == 2      \* provider chunks delivered in one run, over all streams
MaxHist == 3        \* longest conversation history handed to the adapter

Procs == 1..NumCalls

\* ---------------------------------------------------------------- values
\* JavaScript's undefined and null, and the test `!x` / `x || y` on them.
Undefined == "<undefined>"
Null == "<null>"
Falsy(v) == v \in {Undefined, Null, ""}
OrElse(a, b) == IF Falsy(a) THEN b ELSE a

USER == "user"
AI == "ai"

ChatModel == "gemini-2.5-flash"
DeepModel == "gemini-2.5-pro"
ThinkingBudget == 32768
SYSTEM_PROMPT == "SYSTEM_PROMPT"
DefaultPrompt == "Please provide a summary of the attached document."
ChatApology == "I'm sorry, I encountered an error. Please try again."
DeepApology == "I'm sorry, I encountered an error during the deep dive analysis. Please try again."

\* Sequences over S of length at most n.
SeqUpTo(S, n) == UNION {[1..k -> S] : k \in 0..n}

\* ---------------------------------------------------------------- inputs
Contents == {"a", "b"}
Messages == [author : {USER, AI}, content : Contents]
Histories == SeqUpTo(Messages, MaxHist)

NewMessages == {"", "hello"}

\* A File is its MIME type and its bytes; NoFile is the omitted argument.
NoFile == [type |-> Undefined]

\* Provider chunks: the text and, when the candidate carries grounding
\* metadata, its groundingChunks list. An entry is a web record whose uri or
\* title may be missing or empty, or an entry of another kind that carries no
\* web record at all.
Web(uri, title) == [web |-> [uri |-> uri, title |-> title]]
StreamChunks ==
    {[text |-> "x"],
     [text |-> "y",
      groundingChunks |-> <<Web("u1", "T1"), Web(Undefined, "T2"), Web("u3", ""), Web("u4", "T4")>>],
     [text |-> "z",
      groundingChunks |-> <<[retrievedContext |-> "doc"], Web("u1", "T1")>>]}
\* Without the search tool the provider attaches no grounding metadata.
PlainChunks == {[text |-> "x"], [text |-> "y"]}
ChunksOf(f) == IF f = "chat" THEN StreamChunks ELSE PlainChunks
\* The histories and files the concurrent flows are called with.
StreamHistories == {<<[author |-> AI, content |-> "a"], [author |-> USER, content |-> "b"]>>}
StreamMessages == {"hello"}
StreamFiles == {[type |-> "application/pdf", bytes |-> "PDF"]}

\* ---------------------------------------------------------------- state
VARIABLES
    envKey,      \* process.env.API_KEY
    storeKey,    \* localStorage.getItem("GEMINI_API_KEY")
    ai,          \* the module-level client handle
    clientsMade, \* how many GoogleGenAI clients were constructed
    keyLookups,  \* how many times the credential was resolved
    flow,        \* per invocation: which generator it is
    pc,          \* per invocation: where the generator stands
    args,        \* per invocation: the arguments, until the request was answered
    reader,      \* per invocation: the FileReader of fileToGenerativePart
    req,         \* per invocation: the request in flight to the provider
    opened,      \* per invocation: provider requests issued
    delivered,   \* per invocation: chunks the provider stream has produced
    out,         \* per invocation: elements yielded to the caller
    caught,      \* per invocation: the error the catch block logged
    thrown,      \* per invocation: the error raised to the caller
    call,        \* a single application of one adapter: its name and argument
    res          \* ... and its result

vars == <<envKey, storeKey, ai, clientsMade, keyLookups, flow, pc, args, reader,
          req, opened, delivered, out, caught, thrown, call, res>>

NoClient == [apiKey |-> Undefined, id |-> 0]
NoArgs == [newMessage |-> Undefined]
NoReq == [model |-> Undefined]
NoCall == [fn |-> "none"]
NotRun == [done |-> FALSE]

\* ---------------------------------------------------------------- getAIClient
\* What one call of getAIClient does to the handle: the cached instance, a new
\* client built from the resolved credential, or the configuration error.
\* getAIClient without the `if (ai) return ai` line.
GetAIClientUncached(handle, made) ==
    LET apiKey == OrElse(envKey, storeKey)
    IN  IF Falsy(apiKey)
        THEN [threw |-> TRUE, client |-> handle, looked |-> 1, built |-> 0]
        ELSE [threw |-> FALSE, client |-> [apiKey |-> apiKey, id |-> made + 1],
              looked |-> 1, built |-> 1]
\* getAIClient without the `if (!apiKey) throw` lines.
GetAIClientUnchecked(handle, made) ==
    IF handle # NoClient
    THEN [threw |-> FALSE, client |-> handle, looked |-> 0, built |-> 0]
    ELSE [threw |-> FALSE, client |-> [apiKey |-> OrElse(envKey, storeKey), id |-> made + 1],
          looked |-> 1, built |-> 1]
GetAIClient(handle, made) ==
    IF handle # NoClient
    THEN [threw |-> FALSE, client |-> handle, looked |-> 0, built |-> 0]
    ELSE LET apiKey == OrElse(envKey, storeKey)
         IN  IF Falsy(apiKey)
             THEN [threw |-> TRUE, client |-> handle, looked |-> 1, built |-> 0]
             ELSE [threw |-> FALSE, client |-> [apiKey |-> apiKey, id |-> made + 1],
                   looked |-> 1, built |-> 1]

\* ---------------------------------------------------------------- fileToGenerativePart
Base64(bytes) == CASE bytes = "PDF" -> "UERG"
                   [] OTHER -> ""
\* readAsDataURL's result, as its comma-separated fields.
ReadAsDataURL(file) == <<"data:" \o file.type \o ";base64", Base64(file.bytes)>>
\* result.split(',')[1]
SplitComma1(fields) == IF Len(fields) >= 2 THEN fields[2] ELSE Undefined
FileToGenerativePart(file, result) ==
    [inlineData |-> [data |-> SplitComma1(result), mimeType |-> file.type]]

\* ---------------------------------------------------------------- buildGeminiHistory
\* buildGeminiHistory shifting the first turn whoever wrote it.
BuildGeminiHistoryShiftAny(messages) ==
    LET history == IF Len(messages) > 0 THEN Tail(messages) ELSE messages
    IN  [j \in 1..Len(history) |->
            [role |-> IF history[j].author = USER THEN "user" ELSE "model",
             parts |-> <<[text |-> history[j].content]>>]]
BuildGeminiHistory(messages) ==
    LET history == IF Len(messages) > 0 /\ messages[1].author = AI
                   THEN Tail(messages)
                   ELSE messages
    IN  [j \in 1..Len(history) |->
            [role |-> IF history[j].author = USER THEN "user" ELSE "model",
             parts |-> <<[text |-> history[j].content]>>]]

\* ---------------------------------------------------------------- chunk projection
HasGrounding(chunk) == "groundingChunks" \in DOMAIN chunk
\* Reading chunk.web.uri of an entry without a web record is a TypeError.
MapThrows(chunk) ==
    /\ HasGrounding(chunk)
    /\ \E j \in 1..Len(chunk.groundingChunks) : "web" \notin DOMAIN chunk.groundingChunks[j]
KeepSource(source) == ~Falsy(source.uri) /\ ~Falsy(source.title)
ChatSources(chunk) ==
    IF HasGrounding(chunk)
    THEN SelectSeq([j \in 1..Len(chunk.groundingChunks) |->
                       [uri |-> chunk.groundingChunks[j].web.uri,
                        title |-> chunk.groundingChunks[j].web.title]],
                   KeepSource)
    ELSE <<>>
ChatElement(chunk) == [text |-> chunk.text, sources |-> ChatSources(chunk)]
DeepElement(chunk) == [text |-> chunk.text, sources |-> <<>>]

\* ---------------------------------------------------------------- requests
ChatRequest(geminiHistory, newMessage) ==
    [model |-> ChatModel, history |-> geminiHistory, message |-> newMessage,
     config |-> [systemInstruction |-> SYSTEM_PROMPT, tools |-> {"googleSearch"}]]

\* userParts without the `|| "Please provide a summary ..."` default.
UserPartsNoDefault(newMessage, fileParts) == fileParts \o <<[text |-> newMessage]>>
UserParts(newMessage, fileParts) ==
    fileParts \o <<[text |-> OrElse(newMessage, DefaultPrompt)]>>
DeepRequest(userParts) ==
    [model |-> DeepModel, contents |-> <<[role |-> "user", parts |-> userParts]>>,
     config |-> [systemInstruction |-> SYSTEM_PROMPT, thinkingBudget |-> ThinkingBudget]]

\* ---------------------------------------------------------------- try / catch
\* The call sites each generator's try block covers.
\* The try block opened after the client accessor's call.
TryBlockAfterClient(f) ==
    IF f = "chat"
    THEN {"sendMessageStream", "nextChunk", "mapSources"}
    ELSE {"generateContentStream", "nextChunk"}
TryBlock(f) ==
    IF f = "chat"
    THEN {"getAIClient", "sendMessageStream", "nextChunk", "mapSources"}
    ELSE {"getAIClient", "generateContentStream", "nextChunk"}
Apology(f) == IF f = "chat" THEN ChatApology ELSE DeepApology
\* A catch block that only logs.
CatchYieldNothing(f) == <<>>
\* What the catch block yields.
CatchYield(f) == <<[text |-> Apology(f), sources |-> <<>>]>>

\* An error of kind `kind` thrown at `site` of invocation i of generator f:
\* inside the try block it is logged and replaced by the apology element,
\* after which the generator ends; outside it reaches the caller.
Throw(i, f, site, kind) ==
    IF site \in TryBlock(f)
    THEN /\ caught' = [caught EXCEPT ![i] = kind]
         /\ out' = [out EXCEPT ![i] = @ \o CatchYield(f)]
         /\ pc' = [pc EXCEPT ![i] = "errored"]
         /\ UNCHANGED thrown
    ELSE /\ thrown' = [thrown EXCEPT ![i] = kind]
         /\ pc' = [pc EXCEPT ![i] = "raised"]
         /\ UNCHANGED <<caught, out>>

\* The body of the try block up to its first await: the client accessor, then
\* the request `request` issued to the provider.
OpenStream(i, f, callArgs, request) ==
    LET got == GetAIClient(ai, clientsMade)
    IN  /\ ai' = got.client
        /\ clientsMade' = clientsMade + got.built
        /\ keyLookups' = keyLookups + got.looked
        /\ IF got.threw
           THEN /\ Throw(i, f, "getAIClient", "config")
                /\ args' = [args EXCEPT ![i] = NoArgs]
                /\ UNCHANGED <<req, opened>>
           ELSE /\ req' = [req EXCEPT ![i] = request]
                /\ args' = [args EXCEPT ![i] = callArgs]
                /\ opened' = [opened EXCEPT ![i] = @ + 1]
                /\ pc' = [pc EXCEPT ![i] = "requesting"]
                /\ UNCHANGED <<caught, out, thrown>>

\* ---------------------------------------------------------------- getChatResponseStream
ChatStart(i, history, newMessage) ==
    /\ pc[i] = "idle"
    /\ flow' = [flow EXCEPT ![i] = "chat"]
    /\ OpenStream(i, "chat", [newMessage |-> newMessage, history |-> history],
                  ChatRequest(BuildGeminiHistory(history), newMessage))
    /\ UNCHANGED <<envKey, storeKey, reader, delivered, call, res>>

\* ---------------------------------------------------------------- getDeepDiveResponseStream
DeepStart(i, newMessage, file) ==
    /\ pc[i] = "idle"
    /\ flow' = [flow EXCEPT ![i] = "deep"]
    /\ IF file # NoFile
       THEN /\ args' = [args EXCEPT ![i] = [newMessage |-> newMessage, file |-> file]]
            /\ reader' = [reader EXCEPT ![i] = "loading"]
            /\ pc' = [pc EXCEPT ![i] = "reading"]
            /\ UNCHANGED <<ai, clientsMade, keyLookups, req, opened, caught, out, thrown>>
       ELSE /\ OpenStream(i, "deep", [newMessage |-> newMessage, file |-> file],
                           DeepRequest(UserParts(newMessage, <<>>)))
            /\ UNCHANGED reader
    /\ UNCHANGED <<envKey, storeKey, delivered, call, res>>

\* reader.onloadend after a successful read: the promise resolves and the
\* generator goes on to build the request.
FileLoaded(i) ==
    /\ pc[i] = "reading"
    /\ reader[i] = "loading"
    /\ reader' = [reader EXCEPT ![i] = "done"]
    /\ OpenStream(i, "deep", args[i],
                  DeepRequest(UserParts(args[i].newMessage,
                      <<FileToGenerativePart(args[i].file, ReadAsDataURL(args[i].file))>>)))
    /\ UNCHANGED <<envKey, storeKey, flow, delivered, call, res>>

\* reader.onloadend after a failed read: reader.result is null, so the handler
\* throws inside the event callback and never calls resolve; the promise the
\* generator awaits stays pending.
FileLoadFailed(i) ==
    /\ pc[i] = "reading"
    /\ reader[i] = "loading"
    /\ reader' = [reader EXCEPT ![i] = "failed"]
    /\ UNCHANGED <<envKey, storeKey, ai, clientsMade, keyLookups, flow, pc, args, req,
                   opened, delivered, out, caught, thrown, call, res>>

\* ---------------------------------------------------------------- the provider
SetupSite(f) == IF f = "chat" THEN "sendMessageStream" ELSE "generateContentStream"
TotalDelivered == LET RECURSIVE Sum(_)
                      Sum(n) == IF n = 0 THEN 0 ELSE Len(delivered[n]) + Sum(n - 1)
                  IN  Sum(NumCalls)

\* await sendMessageStream / generateContentStream resolves with a stream.
StreamOpened(i) ==
    /\ pc[i] = "requesting"
    /\ pc' = [pc EXCEPT ![i] = "streaming"]
    /\ req' = [req EXCEPT ![i] = NoReq]
    /\ args' = [args EXCEPT ![i] = NoArgs]
    /\ UNCHANGED <<envKey, storeKey, ai, clientsMade, keyLookups, flow, reader,
                   opened, delivered, out, caught, thrown, call, res>>

\* ... or rejects.
SetupFailed(i) ==
    /\ pc[i] = "requesting"
    /\ req' = [req EXCEPT ![i] = NoReq]
    /\ args' = [args EXCEPT ![i] = NoArgs]
    /\ Throw(i, flow[i], SetupSite(flow[i]), "provider")
    /\ UNCHANGED <<envKey, storeKey, ai, clientsMade, keyLookups, flow, reader,
                   opened, delivered, call, res>>

\* One iteration of `for await (const chunk of stream)`.
NextChunk(i, chunk) ==
    /\ pc[i] = "streaming"
    /\ TotalDelivered < MaxChunks
    /\ delivered' = [delivered EXCEPT ![i] = Append(@, chunk)]
    /\ IF flow[i] = "chat"
       THEN IF MapThrows(chunk)
            THEN Throw(i, "chat", "mapSources", "type")
            ELSE /\ out' = [out EXCEPT ![i] = Append(@, ChatElement(chunk))]
                 /\ UNCHANGED <<pc, caught, thrown>>
       ELSE /\ out' = [out EXCEPT ![i] = Append(@, DeepElement(chunk))]
            /\ UNCHANGED <<pc, caught, thrown>>
    /\ UNCHANGED <<envKey, storeKey, ai, clientsMade, keyLookups, flow, args, reader,
                   req, opened, call, res>>

\* The stream closes: the loop and the generator end.
StreamClosed(i) ==
    /\ pc[i] = "streaming"
    /\ pc' = [pc EXCEPT ![i] = "completed"]
    /\ UNCHANGED <<envKey, storeKey, ai, clientsMade, keyLookups, flow, args, reader,
                   req, opened, delivered, out, caught, thrown, call, res>>

\* The stream fails at a next-chunk request.
StreamFailed(i) ==
    /\ pc[i] = "streaming"
    /\ Throw(i, flow[i], "nextChunk", "provider")
    /\ UNCHANGED <<envKey, storeKey, ai, clientsMade, keyLookups, flow, args, reader,
                   req, opened, delivered, call, res>>

\* ---------------------------------------------------------------- specification
\* Nothing was called yet: the handle is unset and no generator exists.
Fresh ==
    /\ ai = NoClient
    /\ clientsMade = 0
    /\ keyLookups = 0
    /\ flow = [i \in Procs |-> "none"]
    /\ pc = [i \in Procs |-> "idle"]
    /\ args = [i \in Procs |-> NoArgs]
    /\ reader = [i \in Procs |-> "none"]
    /\ req = [i \in Procs |-> NoReq]
    /\ opened = [i \in Procs |-> 0]
    /\ delivered = [i \in Procs |-> <<>>]
    /\ out = [i \in Procs |-> <<>>]
    /\ caught = [i \in Procs |-> "none"]
    /\ thrown = [i \in Procs |-> "none"]

Init ==
    /\ envKey \in {Undefined, "env-key"}
    /\ storeKey \in {Null, "stored-key"}
    /\ envKey = Undefined \/ storeKey = Null    \* at most one source is configured
    /\ Fresh
    /\ call = NoCall
    /\ res = NotRun

\* What invocation i does once it was called.
Resume(i) ==
    \/ FileLoaded(i)
    \/ FileLoadFailed(i)
    \/ StreamOpened(i)
    \/ SetupFailed(i)
    \/ \E chunk \in ChunksOf(flow[i]) : NextChunk(i, chunk)
    \/ StreamClosed(i)
    \/ StreamFailed(i)

Next ==
    \E i \in Procs :
        \/ \E history \in StreamHistories, newMessage \in StreamMessages :
               ChatStart(i, history, newMessage)
        \/ \E newMessage \in NewMessages, file \in StreamFiles \cup {NoFile} :
               DeepStart(i, newMessage, file)
        \/ Resume(i)

Spec == Init /\ [][Next]_vars

\* The caller keeps consuming and the provider answers every request.
FairSpec == Spec /\ \A i \in Procs : WF_vars(Resume(i))

\* ---------------------------------------------------------------- the adapter alone
\* buildGeminiHistory applied once to each history of up to MaxHist turns.
RunBuildGeminiHistory ==
    /\ call.fn = "buildGeminiHistory"
    /\ res = NotRun
    /\ res' = [done |-> TRUE, value |-> BuildGeminiHistory(call.arg)]
    /\ UNCHANGED <<envKey, storeKey, ai, clientsMade, keyLookups, flow, pc, args, reader,
                   req, opened, delivered, out, caught, thrown, call>>

InitAdapter ==
    /\ envKey = Undefined
    /\ storeKey = Null
    /\ Fresh
    /\ call \in [fn : {"buildGeminiHistory"}, arg : Histories]
    /\ res = NotRun

NextAdapter == RunBuildGeminiHistory

SpecAdapter == InitAdapter /\ [][NextAdapter]_vars

\* ================================================================ properties
ProviderFailed(i) == caught[i] = "provider" \/ thrown[i] = "provider"
ConfigFailed(i) == caught[i] = "config" \/ thrown[i] = "config"
PlaceholderOf(i) ==
    [text |-> IF flow[i] = "chat"
              THEN "I'm sorry, I encountered an error. Please try again."
              ELSE "I'm sorry, I encountered an error during the deep dive analysis. Please try again.",
     sources |-> <<>>]
IsApology(e) ==
    e.text \in {"I'm sorry, I encountered an error. Please try again.",
                "I'm sorry, I encountered an error during the deep dive analysis. Please try again."}

\* C1: when the provider fails at session setup or after k chunks were
\* delivered, the caller has received exactly the k elements of those chunks
\* followed by one placeholder (the flow's apology, no sources); the error is
\* not raised, the invocation issued one provider request and, once ended,
\* yields nothing more and issues no further request.
ProviderFailureYieldsPlaceholder ==
    /\ [](\A i \in Procs :
            ProviderFailed(i) =>
                /\ thrown[i] = "none"
                /\ pc[i] = "errored"
                /\ opened[i] = 1
                /\ Len(out[i]) = Len(delivered[i]) + 1
                /\ \A j \in 1..Len(delivered[i]) :
                       /\ out[i][j].text = delivered[i][j].text
                       /\ ~IsApology(out[i][j])
                /\ out[i][Len(out[i])] = PlaceholderOf(i))
    /\ [][\A i \in Procs :
              ProviderFailed(i) =>
                  /\ out'[i] = out[i]
                  /\ opened'[i] = opened[i]
                  /\ pc'[i] = pc[i]]_vars
\* A stream that failed after at least one delivered chunk, and one that
\* failed at setup.
ProviderFailureWitness ==
    \E i, j \in Procs :
        /\ caught[i] = "provider" /\ Len(delivered[i]) >= 1
        /\ caught[j] = "provider" /\ Len(delivered[j]) = 0 /\ Len(out[j]) = 1

\* C2 as stated: a missing-credential error of the client accessor reaches the
\* caller as an error and is not turned into a placeholder element.
ConfigErrorPropagates ==
    \A i \in Procs :
        ConfigFailed(i) =>
            /\ thrown[i] = "config"
            /\ \A j \in 1..Len(out[i]) : ~IsApology(out[i][j])
\* C2 as amended: a missing-credential error of the client accessor is caught
\* by the flow; the caller receives exactly one placeholder element and no
\* error.
ConfigErrorSwallowed ==
    \A i \in Procs :
        ConfigFailed(i) =>
            /\ thrown[i] = "none"
            /\ caught[i] = "config"
            /\ pc[i] = "errored"
            /\ out[i] = <<PlaceholderOf(i)>>
ConfigErrorWitness ==
    \E i, j \in Procs :
        /\ flow[i] = "chat" /\ caught[i] = "config"
        /\ flow[j] = "deep" /\ caught[j] = "config"

\* C3: for a history whose first turn is assistant-authored, the adapted
\* history is empty or begins with a 'user' element.
AdaptedStartsWithUser ==
    (res.done /\ Len(call.arg) > 0 /\ call.arg[1].author = AI) =>
        (res.value = <<>> \/ res.value[1].role = "user")

\* C4: for a history whose first turn is user-authored, the adapted history
\* has the same length and element j has the text of turn j and the role
\* 'user' if turn j is user-authored, 'model' otherwise.
UserFirstRelabelled ==
    (res.done /\ Len(call.arg) > 0 /\ call.arg[1].author = USER) =>
        /\ Len(res.value) = Len(call.arg)
        /\ \A j \in 1..Len(call.arg) :
               /\ res.value[j].parts = <<[text |-> call.arg[j].content]>>
               /\ call.arg[j].author = USER => res.value[j].role = "user"
               /\ call.arg[j].author = AI => res.value[j].role = "model"
\* An adapted user-first history whose roles do not alternate.
UserFirstWitness ==
    /\ res.done
    /\ Len(call.arg) = 3
    /\ call.arg[1].author = USER /\ call.arg[2].author = USER /\ call.arg[3].author = AI
    /\ call.arg[1].content # call.arg[2].content

\* The entries of a chunk's citation list that have a URI and a title.
Cited(chunk) ==
    LET Complete(e) == /\ "web" \in DOMAIN e
                       /\ e.web.uri \notin {Undefined, ""}
                       /\ e.web.title \notin {Undefined, ""}
        kept == IF "groundingChunks" \in DOMAIN chunk
                THEN SelectSeq(chunk.groundingChunks, Complete)
                ELSE <<>>
    IN  [j \in 1..Len(kept) |-> [uri |-> kept[j].web.uri, title |-> kept[j].web.title]]

\* C5: in the chat flow the element yielded for a provider chunk has as
\* sources exactly the chunk's citation entries that have both a URI and a
\* title, in their order (none when the chunk has no citation metadata).
ChatSourcesAreCited ==
    \A i \in Procs :
        flow[i] = "chat" =>
            \A j \in 1..Len(delivered[i]) :
                /\ j <= Len(out[i])
                /\ out[i][j].sources = Cited(delivered[i][j])

\* C6: while the provider has not failed, a flow has yielded exactly one
\* element per delivered chunk, in order and with that chunk's text, and no
\* placeholder.
StreamPassedThrough ==
    \A i \in Procs :
        (~ProviderFailed(i) /\ ~ConfigFailed(i)) =>
            /\ pc[i] # "errored"
            /\ Len(out[i]) = Len(delivered[i])
            /\ \A j \in 1..Len(out[i]) :
                   /\ out[i][j].text = delivered[i][j].text
                   /\ ~IsApology(out[i][j])

\* C7: the request of the deep-dive flow holds one user turn that ends with
\* its only text part, the supplied message or, for an empty message, the
\* default prompt; an attached file is the one inline-data part before it.
DeepUserTurn ==
    \A i \in Procs :
        (flow[i] = "deep" /\ pc[i] = "requesting") =>
            LET parts == req[i].contents[1].parts
                n == Len(parts)
            IN  /\ Len(req[i].contents) = 1
                /\ req[i].contents[1].role = "user"
                /\ n >= 1
                /\ DOMAIN parts[n] = {"text"}
                /\ parts[n].text # ""
                /\ args[i].newMessage # "" => parts[n].text = args[i].newMessage
                /\ args[i].newMessage = "" =>
                       parts[n].text = "Please provide a summary of the attached document."
                /\ args[i].file = NoFile => n = 1
                /\ args[i].file # NoFile =>
                       /\ n = 2
                       /\ DOMAIN parts[1] = {"inlineData"}
                       /\ parts[1].inlineData.mimeType = args[i].file.type
                       /\ args[i].file.bytes = "PDF" => parts[1].inlineData.data = "UERG"
DeepUserTurnWitness ==
    \E i, j \in Procs :
        /\ flow[i] = "deep" /\ pc[i] = "requesting"
        /\ args[i].newMessage = "" /\ args[i].file # NoFile
        /\ flow[j] = "deep" /\ pc[j] = "requesting"
        /\ args[j].newMessage = "" /\ args[j].file = NoFile

\* C8: with no credential in the environment or in local storage, every
\* client access ends in the configuration error, the handle stays unset and
\* no request is issued to the provider.
NoCredential == envKey \in {Undefined, ""} /\ storeKey \in {Null, ""}
NoCredentialNoRequest ==
    NoCredential =>
        /\ ai = NoClient
        /\ clientsMade = 0
        /\ \A i \in Procs :
               /\ opened[i] = 0
               /\ req[i] = NoReq
               /\ delivered[i] = <<>>
               /\ pc[i] \in {"idle", "reading"} \/ ConfigFailed(i)
NoCredentialWitness ==
    /\ NoCredential
    /\ \E i, j \in Procs : i # j /\ ConfigFailed(i) /\ ConfigFailed(j)
    /\ keyLookups = 2

\* C9: the client handle is written at most once: at most one client is ever
\* constructed, and once the handle is set no step changes it, resolves the
\* credential or constructs a client.
HandleWrittenOnce ==
    /\ [](clientsMade <= 1 /\ (ai # NoClient => clientsMade = 1 /\ keyLookups = 1))
    /\ [][ai # NoClient =>
              /\ ai' = ai
              /\ keyLookups' = keyLookups
              /\ clientsMade' = clientsMade]_vars
\* Two invocations alive at once, both past their client access.
HandleSharedWitness ==
    \E i, j \in Procs :
        /\ i # j
        /\ flow[i] = "chat" /\ pc[i] = "streaming" /\ Len(delivered[i]) >= 1
        /\ flow[j] = "deep" /\ pc[j] = "requesting"
        /\ ai # NoClient

\* C10: every invocation of the deep-dive flow eventually completes or ends
\* with the placeholder, a failed file read included.
DeepDiveTerminates ==
    \A i \in Procs : (flow[i] = "deep") ~> (pc[i] \in {"completed", "errored"})

====
